---- MODULE Spec2Model ----
(***************************************************************************)
(* PLStream, the online unsupervised sentiment classifier of SentiStream   *)
(* (sentistream-updated/unsupervised_models/plstream.py), as a state       *)
(* machine.  One PLStream object is one index of Instances; every field of *)
(* the class is a variable indexed by the instance.                        *)
(*                                                                         *)
(* Numbers.  Python floats are modelled exactly: a trend coefficient or an *)
(* accuracy is a fraction <<numerator, denominator>> with a positive       *)
(* denominator, and comparisons are cross-multiplied.  Word vectors are    *)
(* one-dimensional (vector_size = 1) with integer entries, so the mean of  *)
(* vectors is a fraction and the cosine of two vectors is the sign of      *)
(* their product.  Similarities and the confidence threshold share one     *)
(* integer unit.                                                           *)
(***************************************************************************)
EXTENDS Integers, Sequences, FiniteSets

VARIABLES
  batch_size,                \* self.batch_size
  temporal_trend_detection,  \* self.temporal_trend_detection
  confidence,                \* self.confidence
  neg_coef,                  \* self.neg_coef, a fraction
  pos_coef,                  \* self.pos_coef, a fraction
  neg_count,                 \* self.neg_count
  pos_count,                 \* self.pos_count
  update,                    \* self.update
  acc_list,                  \* self.acc_list, a sequence of fractions
  wv_model,                  \* self.wv_model: [wv |-> token -> vector]
  labels,                    \* self.labels
  texts,                     \* self.texts
  disk,                      \* the file system: path -> saved model or NoFile
  ret,                       \* what the last call on the instance returned
  err,                       \* the exception the last call raised, or "none"
  calls,                     \* history: number of process_data calls made
  emitted,                   \* history: number of non-BATCHING results
  window,                    \* history: the raw texts ingested since the last
                             \* result but one, in arrival order
  train_log,                 \* history: the arguments of each training call
  pred_log,                  \* history: the similarities and coefficients each
                             \* item of the last batch was classified with, and
                             \* what predict returned for it
  direct,                    \* history: number of direct method calls made
  stage,                     \* where the process_data call of the instance
                             \* stands, "idle" between calls
  frame,                     \* the locals confidence and y_preds of eval_model
  steps,                     \* history: the steps of the last batch cycle
  embed                      \* a call of the embedder: its arguments and result

vars == <<batch_size, temporal_trend_detection, confidence, neg_coef, pos_coef,
          neg_count, pos_count, update, acc_list, wv_model, labels, texts,
          disk, ret, err, calls, emitted, window, train_log, pred_log, direct,
          stage, frame, steps, embed>>

config == <<batch_size, temporal_trend_detection, confidence>>
trend_state == <<neg_coef, pos_coef, neg_count, pos_count>>
history == <<calls, emitted, window, train_log, pred_log>>
stepwise == <<stage, frame, steps>>

----------------------------------------------------------------------------
(* Bounds of the model. *)

MaxCalls == 3
MaxBatch == 2
MaxPreds == 1
MaxPairs == 2
MaxStepCalls == 4
MaxTokens == 3
MaxFaults == 1

Instances == {1, 2}
BatchSizes == 0..MaxBatch
Confidences == {-1, 0, 1}
Labels == {0, 1}
Vectors == {-1, 1}

(* Raw texts are sequences of raw words (the split at word boundaries is    *)
(* taken as done).                                                          *)
RawTexts == { <<"Great", "film">>, <<"a", "bad", "the">> }

----------------------------------------------------------------------------
(* Text normalisation. *)

Range(s) == { s[k] : k \in 1..Len(s) }

Lower(w) == CASE w = "Great" -> "great"
              [] OTHER -> w

WordLen(w) == CASE w = "Great" -> 5
                [] w = "great" -> 5
                [] w = "film" -> 4
                [] w = "bad" -> 3
                [] w = "the" -> 3
                [] OTHER -> 1

STOP_WORDS == {"the", "a", "i", "me", "my", "and", "is"}

LowerAll(line) == [k \in 1..Len(line) |-> Lower(line[k])]

KeepLen(w) == WordLen(w) \in 2..15

(* simple_preprocess(line, deacc=True): lowercase, keep tokens of 2 to 15   *)
(* characters.                                                              *)
tokenize(line) == SelectSeq(LowerAll(line), KeepLen)

NotStop(w) == w \notin STOP_WORDS

(* Removes every stop word. *)
clean_for_wv(tokens) == SelectSeq(tokens, NotStop)

Normalize(text) == clean_for_wv(tokenize(text))

----------------------------------------------------------------------------
(* Fractions. *)

Frac(n, d) == <<n, d>>

FracEq(a, b) == a[1] * b[2] = b[1] * a[2]

FracSumIsOne(a, b) == a[1] * b[2] + b[1] * a[2] = a[2] * b[2]

Sign(x) == IF x > 0 THEN 1 ELSE IF x < 0 THEN -1 ELSE 0

RECURSIVE SumSeq(_)
SumSeq(s) == IF s = <<>> THEN 0 ELSE s[1] + SumSeq(Tail(s))

----------------------------------------------------------------------------
(* Python floats (IEEE 754 binary64, round to nearest, ties to even).  A    *)
(* float is its sign sgn and, when it is not zero, a 53-bit significand     *)
(* hi * 2^26 + lo with 2^26 <= hi < 2^27 and 0 <= lo < 2^26, and an         *)
(* exponent e: its value is sgn * (hi * 2^26 + lo) * 2^(-e).  The two       *)
(* halves keep every intermediate result below 2^31.                        *)

Two13 == 8192
Two26 == 67108864
Two27 == 134217728

FloatZero == [sgn |-> 0, hi |-> 0, lo |-> 0, e |-> 0]

(* The significand raised by one unit in the last place when `up`. *)
FloatRound(sgn, hi, lo, e, up) ==
  IF ~up THEN [sgn |-> sgn, hi |-> hi, lo |-> lo, e |-> e]
  ELSE IF lo + 1 < Two26 THEN [sgn |-> sgn, hi |-> hi, lo |-> lo + 1, e |-> e]
  ELSE IF hi + 1 < Two27 THEN [sgn |-> sgn, hi |-> hi + 1, lo |-> 0, e |-> e]
  ELSE [sgn |-> sgn, hi |-> Two26, lo |-> 0, e |-> e - 1]

(* The least k with n * 2^k >= t, for n >= 1. *)
RECURSIVE Shifts(_, _)
Shifts(n, t) == IF n >= t THEN 0 ELSE 1 + Shifts(2 * n, t)

(* The float n / t of two counts 0 <= n <= t, 1 <= t: the quotient by long  *)
(* division, 13 bits at a time, rounded on the last remainder.              *)
FloatDiv(n, t) ==
  IF n = 0 THEN FloatZero
  ELSE LET k == Shifts(n, t)
           r0 == n * 2^k - t
           q1 == (r0 * Two13) \div t
           r1 == (r0 * Two13) % t
           q2 == (r1 * Two13) \div t
           r2 == (r1 * Two13) % t
           q3 == (r2 * Two13) \div t
           r3 == (r2 * Two13) % t
           q4 == (r3 * Two13) \div t
           r4 == (r3 * Two13) % t
           hi == Two26 + q1 * Two13 + q2
           lo == q3 * Two13 + q4
           up == 2 * r4 > t \/ (2 * r4 = t /\ lo % 2 = 1)
       IN  FloatRound(1, hi, lo, 52 + k, up)

(* The least j with hi \div 2^j < 2^27. *)
RECURSIVE ExtraBits(_)
ExtraBits(hi) == IF hi < Two27 THEN 0 ELSE 1 + ExtraBits(hi \div 2)

(* The float product s * x of a float x and a float of integer value s,     *)
(* -15 <= s <= 15: the exact product, then rounded to 53 bits.              *)
FloatMul(s, x) ==
  IF s = 0 \/ x.sgn = 0 THEN FloatZero
  ELSE LET a == IF s < 0 THEN -s ELSE s
           lp == x.lo * a
           lo1 == lp % Two26
           hi1 == x.hi * a + (lp \div Two26)
           j == ExtraBits(hi1)
           d == lo1 % 2^j
           lo2 == (lo1 \div 2^j) + (hi1 % 2^j) * (Two26 \div 2^j)
           hi2 == hi1 \div 2^j
           up == j >= 1 /\ (2 * d > 2^j \/ (2 * d = 2^j /\ lo2 % 2 = 1))
       IN  FloatRound(Sign(s) * x.sgn, hi2, lo2, x.e - j, up)

MagGE(a, b) ==
  \/ a.e < b.e
  \/ a.e = b.e /\ (a.hi > b.hi \/ (a.hi = b.hi /\ a.lo >= b.lo))

(* a >= b on floats. *)
FloatGE(a, b) ==
  IF a.sgn # b.sgn THEN a.sgn > b.sgn
  ELSE IF a.sgn = 0 THEN TRUE
  ELSE IF a.sgn = 1 THEN MagGE(a, b)
  ELSE MagGE(b, a)

----------------------------------------------------------------------------
(* The word-vector model and the embedder. *)

EmptyModel == [wv |-> <<>>]
NoFile == [saved |-> FALSE, model |-> EmptyModel]
SavedFile(model) == [saved |-> TRUE, model |-> model]

(* The path every instance hands to the training call. *)
snapshot_path(i) == "plstream-wv.model"
Paths == { snapshot_path(i) : i \in Instances }

pos_ref == {"love", "best", "beautiful", "great", "cool", "awesome",
            "wonderful", "brilliant", "excellent", "fantastic"}
neg_ref == {"bad", "worst", "stupid", "disappointing", "terrible", "rubbish",
            "boring", "awful", "unwatchable", "awkward"}

Vocab(model) == DOMAIN model.wv

CorpusWords(corpus) == UNION { Range(corpus[k]) : k \in 1..Len(corpus) }

(* The models a training call may leave: with update = FALSE the vocabulary *)
(* is rebuilt from the corpus, with update = TRUE it is extended by it; the *)
(* vectors of all words, old ones included, are refitted.                   *)
train_word_vector_algo(model, corpus, upd) ==
  LET vocab == (IF upd THEN Vocab(model) ELSE {}) \cup CorpusWords(corpus)
  IN  { [wv |-> f] : f \in [vocab -> Vectors] }

(* The sum divided by the number of all tokens, found or not. *)
default_vector_mean_over_all(model, tokenized_text) ==
  LET known(w) == w \in DOMAIN model.wv
      kept == SelectSeq(tokenized_text, known)
      vs == [k \in 1..Len(kept) |-> model.wv[kept[k]]]
  IN  IF Len(tokenized_text) > 0 THEN Frac(SumSeq(vs), Len(tokenized_text))
      ELSE Frac(0, 1)

(* default_vector_mean: sum the vectors of the known tokens, count them,    *)
(* divide by the count when it is positive.                                 *)
KnownVectors(model, tokens) ==
  LET known(w) == w \in Vocab(model)
      kept == SelectSeq(tokens, known)
  IN  [k \in 1..Len(kept) |-> model.wv[kept[k]]]

default_vector_mean(model, tokenized_text) ==
  LET vs == KnownVectors(model, tokenized_text)
      count == Len(vs)
  IN  IF count > 0 THEN Frac(SumSeq(vs), count) ELSE Frac(0, 1)

get_average_word_embeddings(model, tokens) == default_vector_mean(model, tokens)

(* Cosine of a (fractional) vector and a word vector in one dimension; 0    *)
(* for a zero vector.                                                       *)
cos_similarity(vector, w) == Sign(vector[1] * w)

RECURSIVE SumOver(_, _, _)
SumOver(S, vector, model) ==
  IF S = {} THEN 0
  ELSE LET w == CHOOSE x \in S : TRUE
       IN  cos_similarity(vector, model.wv[w]) + SumOver(S \ {w}, vector, model)

cos_sim_pos(model, tokens) ==
  SumOver(pos_ref \cap Vocab(model), get_average_word_embeddings(model, tokens), model)

cos_sim_neg(model, tokens) ==
  SumOver(neg_ref \cap Vocab(model), get_average_word_embeddings(model, tokens), model)

----------------------------------------------------------------------------
(* The classifier. *)

(* The sign of the float product s * (n / t). *)
ProductSign(s, c) == Sign(s) * Sign(c[1])

(* A strict comparison in place of >=. *)
TrendPrefersNeg_strict(sn, nc, sp, pc) ==
  IF ProductSign(sn, nc) # ProductSign(sp, pc)
  THEN ProductSign(sn, nc) > ProductSign(sp, pc)
  ELSE IF ProductSign(sn, nc) = 0 THEN FALSE
  ELSE ~FloatGE(FloatMul(sp, FloatDiv(pc[1], pc[2])),
                FloatMul(sn, FloatDiv(nc[1], nc[2])))

(* cos_sim_neg * self.neg_coef >= cos_sim_pos * self.pos_coef in floats:    *)
(* a coefficient <<n, t>> is the float n / t the trend update stored.  Two  *)
(* products of different sign, or both zero, are ordered by their signs;    *)
(* otherwise both are computed and rounded, and compared.                   *)
TrendPrefersNeg(sn, nc, sp, pc) ==
  IF ProductSign(sn, nc) # ProductSign(sp, pc)
  THEN ProductSign(sn, nc) > ProductSign(sp, pc)
  ELSE IF ProductSign(sn, nc) = 0 THEN TRUE
  ELSE FloatGE(FloatMul(sn, FloatDiv(nc[1], nc[2])),
               FloatMul(sp, FloatDiv(pc[1], pc[2])))

(* The trend consulted before the positive threshold. *)
decide_trend_first(sp, sn, conf, trend, pc, nc) ==
  IF sn - sp > conf THEN <<sn - sp, 0>>
  ELSE IF trend
       THEN IF TrendPrefersNeg(sn, nc, sp, pc) THEN <<sn - sp, 0>>
            ELSE <<sp - sn, 1>>
  ELSE IF sp - sn > conf THEN <<sp - sn, 1>>
  ELSE IF sn > sp THEN <<sn - sp, 0>>
  ELSE <<sp - sn, 1>>

(* >= in place of > in the comparison without trend. *)
decide_ties_to_negative(sp, sn, conf, trend, pc, nc) ==
  IF sn - sp > conf THEN <<sn - sp, 0>>
  ELSE IF sp - sn > conf THEN <<sp - sn, 1>>
  ELSE IF trend
       THEN IF TrendPrefersNeg(sn, nc, sp, pc) THEN <<sn - sp, 0>>
            ELSE <<sp - sn, 1>>
  ELSE IF sn >= sp THEN <<sn - sp, 0>>
  ELSE <<sp - sn, 1>>

(* The positive threshold tested before the negative one. *)
decide_positive_first(sp, sn, conf, trend, pc, nc) ==
  IF sp - sn > conf THEN <<sp - sn, 1>>
  ELSE IF sn - sp > conf THEN <<sn - sp, 0>>
  ELSE IF trend
       THEN IF TrendPrefersNeg(sn, nc, sp, pc) THEN <<sn - sp, 0>>
            ELSE <<sp - sn, 1>>
  ELSE IF sn > sp THEN <<sn - sp, 0>>
  ELSE <<sp - sn, 1>>

(* The decision of predict from the two similarity sums. *)
decide(sp, sn, conf, trend, pc, nc) ==
  IF sn - sp > conf THEN <<sn - sp, 0>>
  ELSE IF sp - sn > conf THEN <<sp - sn, 1>>
  ELSE IF trend
       THEN IF TrendPrefersNeg(sn, nc, sp, pc) THEN <<sn - sp, 0>>
            ELSE <<sp - sn, 1>>
  ELSE IF sn > sp THEN <<sn - sp, 0>>
  ELSE <<sp - sn, 1>>

(* PLStream.predict on instance i, whose word-vector model is `model`. *)
predict(i, model, tokens) ==
  decide(cos_sim_pos(model, tokens), cos_sim_neg(model, tokens), confidence[i],
         temporal_trend_detection[i], pos_coef[i], neg_coef[i])

(* The negative counter raised for every prediction. *)
CountNeg_every(y_preds) == Len(y_preds)

(* The counting loop of update_temporal_trend. *)
CountPos(y_preds) == Cardinality({ k \in 1..Len(y_preds) : y_preds[k] = 1 })
CountNeg(y_preds) == Cardinality({ k \in 1..Len(y_preds) : y_preds[k] # 1 })

(* The two coefficients assigned the wrong way round. *)
update_temporal_trend_swapped(i, y_preds) ==
  LET pc == pos_count[i] + CountPos(y_preds)
      nc == neg_count[i] + CountNeg(y_preds)
      total == nc + pc
  IN  IF total = 0
      THEN [pos_count |-> pc, neg_count |-> nc, neg_coef |-> neg_coef[i],
            pos_coef |-> pos_coef[i], raised |-> TRUE]
      ELSE [pos_count |-> pc, neg_count |-> nc, neg_coef |-> Frac(pc, total),
            pos_coef |-> Frac(nc, total), raised |-> FALSE]

(* PLStream.update_temporal_trend: the trend state it leaves, and whether   *)
(* the division raised (the counters are already updated by then, the       *)
(* coefficients are not).                                                   *)
update_temporal_trend(i, y_preds) ==
  LET pc == pos_count[i] + CountPos(y_preds)
      nc == neg_count[i] + CountNeg(y_preds)
      total == nc + pc
  IN  IF total = 0
      THEN [pos_count |-> pc, neg_count |-> nc, neg_coef |-> neg_coef[i],
            pos_coef |-> pos_coef[i], raised |-> TRUE]
      ELSE [pos_count |-> pc, neg_count |-> nc, neg_coef |-> Frac(nc, total),
            pos_coef |-> Frac(pc, total), raised |-> FALSE]

(* sklearn's accuracy_score: the fraction of exact matches. *)
accuracy_score(y_true, y_pred) ==
  Frac(Cardinality({ k \in 1..Len(y_true) : y_true[k] = y_pred[k] }), Len(y_true))

(* The ground truth copied into the predictions. *)
eval_model_reads_labels(i, model, sent_tokens, labs) ==
  LET results == [k \in 1..Len(sent_tokens) |-> predict(i, model, sent_tokens[k])]
      conf == [k \in 1..Len(sent_tokens) |-> results[k][1]]
  IN  [confidence |-> conf, y_preds |-> labs,
       trend |-> update_temporal_trend(i, labs),
       acc |-> accuracy_score(labs, labs)]

(* PLStream.eval_model: classify every item, then update the trend, then    *)
(* record the accuracy.                                                     *)
eval_model(i, model, sent_tokens, labs) ==
  LET results == [k \in 1..Len(sent_tokens) |-> predict(i, model, sent_tokens[k])]
      conf == [k \in 1..Len(sent_tokens) |-> results[k][1]]
      y_preds == [k \in 1..Len(sent_tokens) |-> results[k][2]]
  IN  [confidence |-> conf, y_preds |-> y_preds,
       trend |-> update_temporal_trend(i, y_preds),
       acc |-> accuracy_score(labs, y_preds)]

----------------------------------------------------------------------------
(* Construction. *)

EmptyFrame == [confidence |-> <<>>, y_preds |-> <<>>, output |-> <<>>]
NoEmbed == [called |-> FALSE, model |-> EmptyModel, tokens |-> <<>>,
            result |-> <<0, 1>>]

InitInstances ==
  /\ \E b \in BatchSizes : batch_size = [i \in Instances |-> b]
  /\ \E t \in BOOLEAN : temporal_trend_detection = [i \in Instances |-> t]
  /\ \E c \in Confidences : confidence = [i \in Instances |-> c]
  /\ neg_coef = [i \in Instances |-> Frac(1, 2)]
  /\ pos_coef = [i \in Instances |-> Frac(1, 2)]
  /\ neg_count = [i \in Instances |-> 0]
  /\ pos_count = [i \in Instances |-> 0]
  /\ update = [i \in Instances |-> FALSE]
  /\ acc_list = [i \in Instances |-> <<>>]
  /\ wv_model = [i \in Instances |-> EmptyModel]
  /\ labels = [i \in Instances |-> <<>>]
  /\ texts = [i \in Instances |-> <<>>]
  /\ disk = [p \in Paths |-> NoFile]
  /\ ret = [i \in Instances |-> [tag |-> "none", output |-> <<>>]]
  /\ err = [i \in Instances |-> "none"]
  /\ calls = [i \in Instances |-> 0]
  /\ emitted = [i \in Instances |-> 0]
  /\ window = [i \in Instances |-> <<>>]
  /\ train_log = [i \in Instances |-> <<>>]
  /\ pred_log = [i \in Instances |-> <<>>]
  /\ direct = 0
  /\ stage = [i \in Instances |-> "idle"]
  /\ frame = [i \in Instances |-> EmptyFrame]
  /\ steps = [i \in Instances |-> <<>>]

Init == InitInstances /\ embed = NoEmbed

----------------------------------------------------------------------------
(* process_data. *)

TotalCalls == calls[1] + calls[2] + direct

BATCHING == [tag |-> "BATCHING", output |-> <<>>]

(* An off-by-one threshold. *)
batch_reached_late(n, size) == n > size

(* len(self.labels) >= self.batch_size *)
batch_reached(n, size) == n >= size

(* The buffer left as it was. *)
buffer_after_cycle_kept(buf) == buf

(* self.labels = [] and self.texts = [] *)
buffer_after_cycle(buf) == <<>>

(* The flag left as it was. *)
update_after_cycle_kept(i) == update[i]

(* self.update = True *)
update_after_cycle(i) == TRUE

(* The models the training call of instance i may leave. *)
training_outcomes(i, texts1, replay) ==
  IF replay = <<>> THEN train_word_vector_algo(wv_model[i], texts1, update[i])
  ELSE train_word_vector_algo(wv_model[i], texts1, update[i]) \cap {replay[1]}

(* The rest of the call once the batch size is reached: train and persist,  *)
(* classify, update the trend, record the accuracy, build the output, set   *)
(* the update flag and clear the buffers.                                   *)
(* `replay` is <<>>, or <<m>> to take of the outcomes of the training call   *)
(* the model m only.                                                        *)
batch_cycle(i, labels1, texts1, replay) ==
  \E model \in training_outcomes(i, texts1, replay) :
  \E ev \in { eval_model(i, model, texts1, labels1) } :
    LET output == [k \in 1..Len(texts1) |->
                     <<ev.confidence[k], ev.y_preds[k], texts1[k]>>]
    IN  /\ wv_model' = [wv_model EXCEPT ![i] = model]
        /\ disk' = [disk EXCEPT ![snapshot_path(i)] = SavedFile(model)]
        /\ train_log' = [train_log EXCEPT
                           ![i] = Append(@, [update |-> update[i], n |-> Len(texts1)])]
        /\ pos_count' = [pos_count EXCEPT ![i] = ev.trend.pos_count]
        /\ neg_count' = [neg_count EXCEPT ![i] = ev.trend.neg_count]
        /\ pos_coef' = [pos_coef EXCEPT ![i] = ev.trend.pos_coef]
        /\ neg_coef' = [neg_coef EXCEPT ![i] = ev.trend.neg_coef]
        /\ acc_list' = [acc_list EXCEPT ![i] = Append(@, ev.acc)]
        /\ update' = [update EXCEPT ![i] = update_after_cycle(i)]
        /\ labels' = [labels EXCEPT ![i] = buffer_after_cycle(labels1)]
        /\ texts' = [texts EXCEPT ![i] = buffer_after_cycle(texts1)]
        /\ ret' = [ret EXCEPT ![i] = [tag |-> "output", output |-> output]]
        /\ emitted' = [emitted EXCEPT ![i] = @ + 1]
        /\ pred_log' = [pred_log EXCEPT ![i] =
                          [k \in 1..Len(texts1) |->
                             [sp |-> cos_sim_pos(model, texts1[k]),
                              sn |-> cos_sim_neg(model, texts1[k]),
                              pos_coef |-> pos_coef[i], neg_coef |-> neg_coef[i],
                              confidence |-> ev.confidence[k],
                              label |-> ev.y_preds[k]]]]

(* The update flag set outside the batch branch. *)
batching_sets_flag(i, labels1, texts1) ==
  /\ labels' = [labels EXCEPT ![i] = labels1]
  /\ texts' = [texts EXCEPT ![i] = texts1]
  /\ ret' = [ret EXCEPT ![i] = BATCHING]
  /\ update' = [update EXCEPT ![i] = TRUE]
  /\ UNCHANGED <<trend_state, acc_list, wv_model, disk, emitted, train_log,
                 pred_log>>

(* The text of the item not buffered. *)
batching_drops_text(i, labels1, texts1) ==
  /\ labels' = [labels EXCEPT ![i] = labels1]
  /\ ret' = [ret EXCEPT ![i] = BATCHING]
  /\ UNCHANGED <<trend_state, update, acc_list, wv_model, disk, emitted, train_log,
                 pred_log, texts>>

(* The rest of the call below the batch size. *)
batching(i, labels1, texts1) ==
  /\ labels' = [labels EXCEPT ![i] = labels1]
  /\ texts' = [texts EXCEPT ![i] = texts1]
  /\ ret' = [ret EXCEPT ![i] = BATCHING]
  /\ UNCHANGED <<trend_state, update, acc_list, wv_model, disk, emitted, train_log,
                 pred_log>>

process_data_given(i, label, text, replay) ==
  LET labels1 == Append(labels[i], label)
      texts1 == Append(texts[i], clean_for_wv(tokenize(text)))
  IN  /\ calls[i] + direct < MaxCalls
      /\ stage[i] = "idle"
      /\ calls' = [calls EXCEPT ![i] = @ + 1]
      /\ window' = [window EXCEPT ![i] = IF ret[i].tag = "output" THEN <<text>>
                                         ELSE Append(@, text)]
      /\ err' = [err EXCEPT ![i] = "none"]
      /\ IF batch_reached(Len(labels1), batch_size[i])
         THEN batch_cycle(i, labels1, texts1, replay)
         ELSE batching(i, labels1, texts1)
      /\ UNCHANGED <<config, direct, stepwise, embed>>

(* PLStream.process_data((label, text)) on instance i. *)
process_data(i, label, text) == process_data_given(i, label, text, <<>>)

----------------------------------------------------------------------------
(* One instance fed by its stream. *)

Next == \E label \in Labels, text \in RawTexts : process_data(1, label, text)

Spec == Init /\ [][Next]_vars

----------------------------------------------------------------------------
(* update_temporal_trend called directly, besides process_data. *)

PredSeqs == UNION { [1..n -> Labels] : n \in 0..MaxPreds }

(* instance.update_temporal_trend(y_preds) *)
call_update_temporal_trend(i, y_preds) ==
  /\ TotalCalls < MaxCalls
  /\ direct' = direct + 1
  /\ \E t \in { update_temporal_trend(i, y_preds) } :
       /\ pos_count' = [pos_count EXCEPT ![i] = t.pos_count]
       /\ neg_count' = [neg_count EXCEPT ![i] = t.neg_count]
       /\ pos_coef' = [pos_coef EXCEPT ![i] = t.pos_coef]
       /\ neg_coef' = [neg_coef EXCEPT ![i] = t.neg_coef]
       /\ err' = [err EXCEPT ![i] = IF t.raised THEN "ZeroDivisionError" ELSE "none"]
  /\ UNCHANGED <<config, update, acc_list, wv_model, labels, texts, disk, ret,
                 history, stepwise, embed>>

NextTrend ==
  \/ Next
  \/ \E y_preds \in PredSeqs : call_update_temporal_trend(1, y_preds)

SpecTrend == Init /\ [][NextTrend]_vars

----------------------------------------------------------------------------
(* Two instances, each fed by its own stream, in any interleaving of calls. *)

NextTwo ==
  \E i \in Instances, label \in Labels, text \in RawTexts :
    TotalCalls < MaxCalls /\ process_data(i, label, text)

SpecTwo == Init /\ [][NextTwo]_vars

----------------------------------------------------------------------------
(* The embedder called on a model and a token sequence of the caller's      *)
(* choice.                                                                  *)

EmbedWords == {"great", "bad"}
EmbedTokens == {"great", "bad", "film"}
EmbedVectors == {-1, 1, 2}
EmbedModels == UNION { { [wv |-> f] : f \in [vocab -> EmbedVectors] } :
                       vocab \in SUBSET EmbedWords }
TokenSeqs == UNION { [1..n -> EmbedTokens] : n \in 0..MaxTokens }

InitEmbed ==
  /\ InitInstances
  /\ \E model \in EmbedModels, tokens \in TokenSeqs :
       embed = [called |-> FALSE, model |-> model, tokens |-> tokens,
                result |-> <<0, 1>>]

(* default_vector_mean(model, tokenized_text) *)
call_default_vector_mean ==
  /\ ~embed.called
  /\ embed' = [embed EXCEPT !.called = TRUE,
                            !.result = default_vector_mean(embed.model, embed.tokens)]
  /\ UNCHANGED <<config, trend_state, update, acc_list, wv_model, labels, texts,
                 disk, ret, err, history, direct, stepwise>>

NextEmbed == call_default_vector_mean

SpecEmbed == InitEmbed /\ [][NextEmbed]_vars

----------------------------------------------------------------------------
(* process_data statement by statement: the call of instance i stands at    *)
(* stage[i], the statement it runs next; frame[i] holds the locals of       *)
(* eval_model and the output list; steps[i] lists the statements the batch  *)
(* cycle has run.                                                           *)

(* The items classified before the model is trained. *)
stage_after_classify_first(s) ==
  CASE s = "append" -> "classify"
    [] s = "classify" -> "train"
    [] s = "train" -> "trend"
    [] s = "trend" -> "accuracy"
    [] s = "accuracy" -> "output"
    [] s = "output" -> "flag"
    [] s = "flag" -> "clear"
    [] s = "clear" -> "return"
    [] OTHER -> "idle"

(* The order of the statements of a batch cycle. *)
stage_after(s) ==
  CASE s = "append" -> "train"
    [] s = "train" -> "classify"
    [] s = "classify" -> "trend"
    [] s = "trend" -> "accuracy"
    [] s = "accuracy" -> "output"
    [] s = "output" -> "flag"
    [] s = "flag" -> "clear"
    [] s = "clear" -> "return"
    [] OTHER -> "idle"

Ran(i, s) == steps' = [steps EXCEPT ![i] = Append(@, s)]

(* The trend moved by every single prediction. *)
trend_while_classifying_running(i, y_pred) == update_temporal_trend(i, <<y_pred>>)

(* The trend state the classification loop leaves after one item: the loop  *)
(* does not assign it.                                                      *)
trend_while_classifying(i, y_pred) ==
  [pos_count |-> pos_count[i], neg_count |-> neg_count[i],
   neg_coef |-> neg_coef[i], pos_coef |-> pos_coef[i], raised |-> FALSE]

(* Append the item and test the batch size. *)
s_append(i, label, text) ==
  LET labels1 == Append(labels[i], label)
      texts1 == Append(texts[i], clean_for_wv(tokenize(text)))
  IN  /\ calls[i] < MaxStepCalls
      /\ stage[i] = "idle"
      /\ calls' = [calls EXCEPT ![i] = @ + 1]
      /\ window' = [window EXCEPT ![i] = IF ret[i].tag = "output" THEN <<text>>
                                         ELSE Append(@, text)]
      /\ err' = [err EXCEPT ![i] = "none"]
      /\ IF batch_reached(Len(labels1), batch_size[i])
         THEN /\ labels' = [labels EXCEPT ![i] = labels1]
              /\ texts' = [texts EXCEPT ![i] = texts1]
              /\ stage' = [stage EXCEPT ![i] = stage_after("append")]
              /\ steps' = [steps EXCEPT ![i] = <<>>]
              /\ frame' = [frame EXCEPT ![i] = EmptyFrame]
              /\ pred_log' = [pred_log EXCEPT ![i] = <<>>]
              /\ UNCHANGED <<trend_state, update, acc_list, wv_model, disk, ret,
                             emitted, train_log>>
         ELSE /\ batching(i, labels1, texts1)
              /\ UNCHANGED stepwise
      /\ UNCHANGED <<config, direct, embed>>

(* train_word_vector_algo(self.wv_model, self.texts, path, update) returns. *)
s_train(i) ==
  /\ stage[i] = "train"
  /\ \E model \in train_word_vector_algo(wv_model[i], texts[i], update[i]) :
       /\ wv_model' = [wv_model EXCEPT ![i] = model]
       /\ disk' = [disk EXCEPT ![snapshot_path(i)] = SavedFile(model)]
  /\ train_log' = [train_log EXCEPT
                     ![i] = Append(@, [update |-> update[i], n |-> Len(texts[i])])]
  /\ stage' = [stage EXCEPT ![i] = stage_after("train")]
  /\ Ran(i, "train")
  /\ UNCHANGED <<config, trend_state, update, acc_list, labels, texts, ret, err,
                 calls, emitted, window, pred_log, direct, frame, embed>>

(* One round of the loop of eval_model: predict the next item. *)
s_predict(i) ==
  LET k == Len(frame[i].y_preds) + 1
  IN  /\ stage[i] = "classify"
      /\ k <= Len(texts[i])
      /\ \E r \in { predict(i, wv_model[i], texts[i][k]) } :
         \E t \in { trend_while_classifying(i, r[2]) } :
           /\ frame' = [frame EXCEPT ![i].confidence = Append(@, r[1]),
                                     ![i].y_preds = Append(@, r[2])]
           /\ pred_log' = [pred_log EXCEPT ![i] = Append(@,
                             [sp |-> cos_sim_pos(wv_model[i], texts[i][k]),
                              sn |-> cos_sim_neg(wv_model[i], texts[i][k]),
                              pos_coef |-> pos_coef[i], neg_coef |-> neg_coef[i],
                              confidence |-> r[1], label |-> r[2]])]
           /\ pos_count' = [pos_count EXCEPT ![i] = t.pos_count]
           /\ neg_count' = [neg_count EXCEPT ![i] = t.neg_count]
           /\ pos_coef' = [pos_coef EXCEPT ![i] = t.pos_coef]
           /\ neg_coef' = [neg_coef EXCEPT ![i] = t.neg_coef]
      /\ stage' = [stage EXCEPT ![i] = IF k = Len(texts[i])
                                       THEN stage_after("classify") ELSE @]
      /\ Ran(i, "predict")
      /\ UNCHANGED <<config, update, acc_list, wv_model, labels, texts, disk, ret,
                     err, calls, emitted, window, train_log, direct, embed>>

(* self.update_temporal_trend(y_preds) *)
s_trend(i) ==
  /\ stage[i] = "trend"
  /\ \E t \in { update_temporal_trend(i, frame[i].y_preds) } :
       /\ pos_count' = [pos_count EXCEPT ![i] = t.pos_count]
       /\ neg_count' = [neg_count EXCEPT ![i] = t.neg_count]
       /\ pos_coef' = [pos_coef EXCEPT ![i] = t.pos_coef]
       /\ neg_coef' = [neg_coef EXCEPT ![i] = t.neg_coef]
  /\ stage' = [stage EXCEPT ![i] = stage_after("trend")]
  /\ Ran(i, "trend")
  /\ UNCHANGED <<config, update, acc_list, wv_model, labels, texts, disk, ret,
                 err, history, direct, frame, embed>>

(* self.acc_list.append(accuracy_score(self.labels, y_preds)) *)
s_accuracy(i) ==
  /\ stage[i] = "accuracy"
  /\ acc_list' = [acc_list EXCEPT
                    ![i] = Append(@, accuracy_score(labels[i], frame[i].y_preds))]
  /\ stage' = [stage EXCEPT ![i] = stage_after("accuracy")]
  /\ Ran(i, "accuracy")
  /\ UNCHANGED <<config, trend_state, update, wv_model, labels, texts, disk, ret,
                 err, history, direct, frame, embed>>

(* output = [[c, p, t] for c, p, t in zip(conf, preds, self.texts)] *)
s_output(i) ==
  /\ stage[i] = "output"
  /\ frame' = [frame EXCEPT ![i].output =
                 [k \in 1..Len(texts[i]) |->
                    <<frame[i].confidence[k], frame[i].y_preds[k], texts[i][k]>>]]
  /\ stage' = [stage EXCEPT ![i] = stage_after("output")]
  /\ Ran(i, "output")
  /\ UNCHANGED <<config, trend_state, update, acc_list, wv_model, labels, texts,
                 disk, ret, err, history, direct, embed>>

(* self.update = True *)
s_flag(i) ==
  /\ stage[i] = "flag"
  /\ update' = [update EXCEPT ![i] = update_after_cycle(i)]
  /\ stage' = [stage EXCEPT ![i] = stage_after("flag")]
  /\ Ran(i, "flag")
  /\ UNCHANGED <<config, trend_state, acc_list, wv_model, labels, texts, disk,
                 ret, err, history, direct, frame, embed>>

(* self.labels = [] and self.texts = [] *)
s_clear(i) ==
  /\ stage[i] = "clear"
  /\ labels' = [labels EXCEPT ![i] = buffer_after_cycle(@)]
  /\ texts' = [texts EXCEPT ![i] = buffer_after_cycle(@)]
  /\ stage' = [stage EXCEPT ![i] = stage_after("clear")]
  /\ Ran(i, "clear")
  /\ UNCHANGED <<config, trend_state, update, acc_list, wv_model, disk, ret, err,
                 history, direct, frame, embed>>

(* return output *)
s_return(i) ==
  /\ stage[i] = "return"
  /\ ret' = [ret EXCEPT ![i] = [tag |-> "output", output |-> frame[i].output]]
  /\ emitted' = [emitted EXCEPT ![i] = @ + 1]
  /\ frame' = [frame EXCEPT ![i] = EmptyFrame]
  /\ stage' = [stage EXCEPT ![i] = stage_after("return")]
  /\ UNCHANGED <<config, trend_state, update, acc_list, wv_model, labels, texts,
                 disk, err, calls, window, train_log, pred_log, direct, steps,
                 embed>>

NextSteps ==
  \/ \E label \in Labels, text \in RawTexts : s_append(1, label, text)
  \/ s_train(1)
  \/ s_predict(1)
  \/ s_trend(1)
  \/ s_accuracy(1)
  \/ s_output(1)
  \/ s_flag(1)
  \/ s_clear(1)
  \/ s_return(1)

SpecSteps == Init /\ [][NextSteps]_vars

----------------------------------------------------------------------------
(* The training call may raise (the model cannot be trained or the snapshot *)
(* cannot be written): the fault leaves process_data at line 94, nothing    *)
(* below it runs.  The model in memory is left as it was or as trained, the *)
(* snapshot is not written.                                                 *)

s_train_raises(i) ==
  /\ stage[i] = "train"
  /\ Len(train_log[i]) - emitted[i] < MaxFaults
  /\ \E model \in {wv_model[i]} \cup
                   train_word_vector_algo(wv_model[i], texts[i], update[i]) :
       wv_model' = [wv_model EXCEPT ![i] = model]
  /\ train_log' = [train_log EXCEPT
                     ![i] = Append(@, [update |-> update[i], n |-> Len(texts[i])])]
  /\ err' = [err EXCEPT ![i] = "TrainingError"]
  /\ ret' = [ret EXCEPT ![i] = [tag |-> "raised", output |-> <<>>]]
  /\ stage' = [stage EXCEPT ![i] = "idle"]
  /\ UNCHANGED <<config, trend_state, update, acc_list, labels, texts, disk,
                 calls, emitted, window, pred_log, direct, frame, steps, embed>>

NextFault ==
  \/ NextSteps
  \/ s_train_raises(1)

SpecFault == Init /\ [][NextFault]_vars

----------------------------------------------------------------------------
(* Two runs over the same texts that differ in the ground-truth labels: the *)
(* two instances are called in turn, instance 2 with the text instance 1    *)
(* was just given and a label of its own, and the training call of instance *)
(* 2 has the outcome the training call of instance 1 had on the same corpus.*)

LastText(i) == window[i][Len(window[i])]

NextPair ==
  \/ /\ calls[1] = calls[2] /\ calls[1] < MaxPairs
     /\ \E label \in Labels, text \in RawTexts : process_data(1, label, text)
  \/ /\ calls[2] < calls[1]
     /\ \E label \in Labels :
          process_data_given(2, label, LastText(1), <<wv_model[1]>>)

SpecPair == Init /\ [][NextPair]_vars

----------------------------------------------------------------------------
(* Properties. *)

Total(i) == pos_count[i] + neg_count[i]

Called(i) == calls'[i] = calls[i] + 1

IsPrefix(s, t) == Len(s) <= Len(t) /\ \A k \in 1..Len(s) : s[k] = t[k]

(* C1: with batch_size >= 1, after N calls of process_data a result other   *)
(* than BATCHING has been returned floor(N / batch_size) times; each result *)
(* holds batch_size records, and record j of result k carries the           *)
(* normalised tokens of ingested item (k-1)*batch_size + j.  (window[i] is  *)
(* the arrival-ordered tail of the ingested texts, so window[i][j] is item  *)
(* calls[i] - Len(window[i]) + j.)                                          *)
C1_BatchingInvariant ==
  \A i \in Instances :
    batch_size[i] >= 1 =>
      /\ emitted[i] = calls[i] \div batch_size[i]
      /\ ret[i].tag = "output" =>
           /\ Len(ret[i].output) = batch_size[i]
           /\ Len(window[i]) = batch_size[i]
           /\ calls[i] - Len(window[i]) = (emitted[i] - 1) * batch_size[i]
           /\ \A j \in 1..batch_size[i] :
                ret[i].output[j][3] = Normalize(window[i][j])

C1_Witness ==
  /\ batch_size[1] = 1
  /\ emitted[1] = 3
  /\ ret[1].tag = "output"
  /\ ret[1].output[1][3] = <<"bad">>

(* C2 as stated: for every batch_size the buffer never holds more than      *)
(* batch_size items, and every batch cycle runs on a buffer of exactly      *)
(* batch_size items.                                                        *)
C2_AnyBatchSize ==
  \A i \in Instances :
    /\ Len(labels[i]) <= batch_size[i]
    /\ \A k \in 1..Len(train_log[i]) : train_log[i][k].n = batch_size[i]

(* C2 amended: for every batch_size >= 1 the buffer never holds more than   *)
(* batch_size items, every batch cycle runs on a buffer of exactly          *)
(* batch_size items, and no call ends with a full buffer (the cycle runs in *)
(* the call that fills it).                                                 *)
C2_PositiveBatchSize ==
  \A i \in Instances :
    batch_size[i] >= 1 =>
      /\ Len(labels[i]) < batch_size[i]
      /\ Len(texts[i]) < batch_size[i]
      /\ \A k \in 1..Len(train_log[i]) : train_log[i][k].n = batch_size[i]
      /\ Len(train_log[i]) = calls[i] \div batch_size[i]

C2_Witness ==
  /\ batch_size[1] = 2
  /\ Len(train_log[1]) = 1
  /\ Len(labels[1]) = 1

(* C3: the first batch cycle of an instance trains with update = False and  *)
(* every later one with update = True; the flag is False exactly until the  *)
(* first cycle has completed.                                               *)
C3_UpdateModeTransition ==
  \A i \in Instances :
    /\ \A k \in 1..Len(train_log[i]) : train_log[i][k].update = (k > 1)
    /\ update[i] = (Len(train_log[i]) > 0)

C3_Witness ==
  /\ Len(train_log[1]) = 3
  /\ train_log[1][3].update
  /\ update[1]

CoefsMatchCounts(i) ==
  Total(i) > 0 =>
    /\ FracSumIsOne(pos_coef[i], neg_coef[i])
    /\ FracEq(pos_coef[i], Frac(pos_count[i], Total(i)))
    /\ FracEq(neg_coef[i], Frac(neg_count[i], Total(i)))

(* C4: no step, be it a process_data call or a direct update_temporal_trend *)
(* call, decreases pos_count or neg_count, and after every step, whenever   *)
(* pos_count + neg_count > 0, pos_coef + neg_coef = 1 with                  *)
(* pos_coef = pos_count / total and neg_coef = neg_count / total.           *)
C4_TrendMonotone ==
  [][\A i \in Instances :
        /\ pos_count'[i] >= pos_count[i]
        /\ neg_count'[i] >= neg_count[i]
        /\ CoefsMatchCounts(i)']_vars

C4_Witness ==
  /\ direct > 0
  /\ calls[1] > 0
  /\ pos_count[1] = 2
  /\ neg_count[1] = 1

(* C5: no call raises a division by zero, and while both counters are zero  *)
(* the coefficients are 0.5 and 0.5.                                        *)
C5_NoDivisionByZero ==
  \A i \in Instances :
    /\ err[i] = "none"
    /\ Total(i) = 0 => pos_coef[i] = Frac(1, 2) /\ neg_coef[i] = Frac(1, 2)

Classified(i) == 1..Len(pred_log[i])
PredLabel(i, k) == pred_log[i][k].label

(* C6 as stated: whenever sim_pos - sim_neg > confidence the label is 1.    *)
C6_AnyThreshold ==
  \A i \in Instances : \A k \in Classified(i) :
    pred_log[i][k].sp - pred_log[i][k].sn > confidence[i] => PredLabel(i, k) = 1

(* C6 amended: whenever sim_pos - sim_neg > confidence and not              *)
(* sim_neg - sim_pos > confidence (always so for a threshold >= 0), the     *)
(* label is 1, whatever the coefficients and the trend setting.             *)
C6_ThresholdOrdering ==
  \A i \in Instances : \A k \in Classified(i) :
    /\ pred_log[i][k].sp - pred_log[i][k].sn > confidence[i]
    /\ ~(pred_log[i][k].sn - pred_log[i][k].sp > confidence[i])
    => PredLabel(i, k) = 1

C6_Witness ==
  \E k \in Classified(1) :
    /\ pred_log[1][k].sp - pred_log[1][k].sn > confidence[1]
    /\ confidence[1] >= 0
    /\ temporal_trend_detection[1]
    /\ pred_log[1][k].pos_coef = Frac(0, 1)
    /\ PredLabel(1, k) = 1

(* C7: every record process_data emits has a confidence >= 0. *)
C7_NonNegativeConfidence ==
  \A i \in Instances : \A k \in 1..Len(ret[i].output) : ret[i].output[k][1] >= 0

(* C8: with trend detection on, pos_coef = neg_coef and sim_pos = sim_neg,  *)
(* the label is 0 for every confidence threshold.                           *)
C8_TieBreak ==
  \A i \in Instances : \A k \in Classified(i) :
    /\ temporal_trend_detection[i]
    /\ FracEq(pred_log[i][k].pos_coef, pred_log[i][k].neg_coef)
    /\ pred_log[i][k].sp = pred_log[i][k].sn
    => PredLabel(i, k) = 0

C8_Witness ==
  \E k \in Classified(1) :
    /\ temporal_trend_detection[1]
    /\ confidence[1] = 1
    /\ pred_log[1][k].pos_coef = Frac(1, 2)
    /\ pred_log[1][k].neg_coef = Frac(1, 2)
    /\ pred_log[1][k].sp = 1
    /\ pred_log[1][k].sn = 1
    /\ PredLabel(1, k) = 0

(* C9: a process_data call that returns BATCHING appends one label and one  *)
(* token sequence to the buffer and changes nothing else of the instance:   *)
(* counters, coefficients, update flag, accuracy history, word-vector model *)
(* and its snapshot stay as they were.                                      *)
C9_BatchingFrame ==
  [][\A i \in Instances :
        (Called(i) /\ ret'[i] = BATCHING) =>
          /\ Len(labels'[i]) = Len(labels[i]) + 1
          /\ IsPrefix(labels[i], labels'[i])
          /\ Len(texts'[i]) = Len(texts[i]) + 1
          /\ IsPrefix(texts[i], texts'[i])
          /\ pos_count'[i] = pos_count[i]
          /\ neg_count'[i] = neg_count[i]
          /\ pos_coef'[i] = pos_coef[i]
          /\ neg_coef'[i] = neg_coef[i]
          /\ update'[i] = update[i]
          /\ acc_list'[i] = acc_list[i]
          /\ wv_model'[i] = wv_model[i]
          /\ disk' = disk]_vars

C9_Witness ==
  /\ ret[1] = BATCHING
  /\ Len(labels[1]) = 1
  /\ calls[1] = 3
  /\ update[1]

(* C10: a process_data call on one instance changes nothing of another      *)
(* instance: not its buffer, counters, coefficients, update flag or         *)
(* word-vector model, and not the snapshot the other instance persisted.    *)
C10_InstanceIsolation ==
  [][\A i, j \in Instances :
        (i # j /\ Called(i)) =>
          /\ labels'[j] = labels[j]
          /\ texts'[j] = texts[j]
          /\ pos_count'[j] = pos_count[j]
          /\ neg_count'[j] = neg_count[j]
          /\ pos_coef'[j] = pos_coef[j]
          /\ neg_coef'[j] = neg_coef[j]
          /\ update'[j] = update[j]
          /\ wv_model'[j] = wv_model[j]
          /\ update[j] => disk'[snapshot_path(j)] = disk[snapshot_path(j)]]_vars

(* C11: the ground-truth labels have no effect on classification: two runs  *)
(* over the same texts with different labels and the same training outcomes *)
(* agree, after every call, on the returned predictions and confidences, on *)
(* the trend counters and coefficients, on the model, the text buffer and   *)
(* the update flag; the label buffer and the accuracy history may differ.   *)
C11_LabelsDoNotInfluence ==
  calls[1] = calls[2] =>
    /\ ret[1] = ret[2]
    /\ pred_log[1] = pred_log[2]
    /\ pos_count[1] = pos_count[2] /\ neg_count[1] = neg_count[2]
    /\ pos_coef[1] = pos_coef[2] /\ neg_coef[1] = neg_coef[2]
    /\ wv_model[1] = wv_model[2]
    /\ texts[1] = texts[2]
    /\ update[1] = update[2]
    /\ emitted[1] = emitted[2]

C11_Witness ==
  /\ calls[1] = calls[2] /\ emitted[1] >= 2
  /\ temporal_trend_detection[1]
  /\ acc_list[1] # acc_list[2]
  /\ ret[1].tag = "output" /\ ret[2] = ret[1]
  /\ pos_count[1] >= 1 /\ neg_count[1] >= 1

NoThreshold(i, k) ==
  /\ ~(pred_log[i][k].sn - pred_log[i][k].sp > confidence[i])
  /\ ~(pred_log[i][k].sp - pred_log[i][k].sn > confidence[i])

(* C12 as stated: with trend detection disabled and neither threshold       *)
(* exceeded, an item whose two similarity sums are equal is given label 0.  *)
C12_NegativeWinsPlainTies ==
  \A i \in Instances : \A k \in Classified(i) :
    ( /\ ~temporal_trend_detection[i]
      /\ NoThreshold(i, k)
      /\ pred_log[i][k].sn = pred_log[i][k].sp )
    => PredLabel(i, k) = 0

(* C12: with trend detection disabled and neither threshold exceeded, an    *)
(* item whose two similarity sums are equal is given label 1 with           *)
(* confidence 0; label 0 is given exactly when sim_neg > sim_pos.           *)
C12_PositiveWinsPlainTies ==
  \A i \in Instances : \A k \in Classified(i) :
    ( ~temporal_trend_detection[i] /\ NoThreshold(i, k) ) =>
      /\ PredLabel(i, k) = 0 <=> pred_log[i][k].sn > pred_log[i][k].sp
      /\ pred_log[i][k].sn = pred_log[i][k].sp =>
            /\ PredLabel(i, k) = 1
            /\ pred_log[i][k].confidence = 0

C12_Witness ==
  \E k \in Classified(1) :
    /\ ~temporal_trend_detection[1]
    /\ NoThreshold(1, k)
    /\ pred_log[1][k].sn = pred_log[1][k].sp
    /\ pred_log[1][k].sn # 0
    /\ PredLabel(1, k) = 1

(* C13: the negative threshold is tested first: an item with                *)
(* sim_neg - sim_pos > confidence is given label 0 and the confidence       *)
(* sim_neg - sim_pos, whatever the coefficients, the trend switch and       *)
(* sim_pos - sim_neg are.                                                   *)
C13_NegativeTestFirst ==
  \A i \in Instances : \A k \in Classified(i) :
    pred_log[i][k].sn - pred_log[i][k].sp > confidence[i] =>
      /\ PredLabel(i, k) = 0
      /\ pred_log[i][k].confidence = pred_log[i][k].sn - pred_log[i][k].sp

C13_Witness ==
  \E k \in Classified(1) :
    /\ pred_log[1][k].sn - pred_log[1][k].sp > confidence[1]
    /\ pred_log[1][k].sp - pred_log[1][k].sn > confidence[1]
    /\ temporal_trend_detection[1]
    /\ pos_coef[1] # neg_coef[1]
    /\ PredLabel(1, k) = 0

Occurrences(log, s) == Cardinality({ k \in 1..Len(log) : log[k] = s })

TrendApplied(i) == Occurrences(steps[i], "trend") >= 1

LoggedLabels(i) == [k \in 1..Len(pred_log[i]) |-> pred_log[i][k].label]

(* The counters as they stood when the batch being classified, or the last  *)
(* one classified, began: the predictions of the earlier batches only.      *)
PriorPos(i) ==
  IF TrendApplied(i) THEN pos_count[i] - CountPos(LoggedLabels(i)) ELSE pos_count[i]

PriorNeg(i) ==
  IF TrendApplied(i) THEN neg_count[i] - CountNeg(LoggedLabels(i)) ELSE neg_count[i]

TrendOf(i) == <<neg_coef[i], pos_coef[i], neg_count[i], pos_count[i]>>

UsedPriorCoefs(i) ==
  \A k \in Classified(i) :
    IF PriorPos(i) + PriorNeg(i) = 0
    THEN /\ FracEq(pred_log[i][k].pos_coef, Frac(1, 2))
         /\ FracEq(pred_log[i][k].neg_coef, Frac(1, 2))
    ELSE /\ FracEq(pred_log[i][k].pos_coef,
                   Frac(PriorPos(i), PriorPos(i) + PriorNeg(i)))
         /\ FracEq(pred_log[i][k].neg_coef,
                   Frac(PriorNeg(i), PriorPos(i) + PriorNeg(i)))

(* C14: the trend lags by one batch: every item of a batch is classified    *)
(* with the coefficients computed from the predictions of the earlier       *)
(* batches (1/2 and 1/2 for the first batch); no statement changes the      *)
(* counters or the coefficients while items are being classified, they      *)
(* change only in the trend update that follows the last item of the batch. *)
C14_TrendLagsOneBatch ==
  [][\A i \in Instances :
       /\ UsedPriorCoefs(i)'
       /\ stage[i] = "classify" => TrendOf(i)' = TrendOf(i)
       /\ TrendOf(i)' # TrendOf(i) =>
            /\ stage[i] = "trend"
            /\ Len(frame[i].y_preds) = Len(texts[i])
            /\ Len(pred_log[i]) = Len(texts[i])]_vars

C14_Witness ==
  /\ temporal_trend_detection[1]
  /\ emitted[1] >= 1
  /\ stage[1] = "trend"
  /\ Len(pred_log[1]) = 2
  /\ pred_log[1][1].pos_coef = pred_log[1][2].pos_coef
  /\ pred_log[1][1].pos_coef # Frac(1, 2)
  /\ pred_log[1][1].label # pred_log[1][2].label

ExpectedSteps(n) ==
  <<"train">> \o [k \in 1..n |-> "predict"] \o <<"trend", "accuracy">>

Core(log) == SelectSeq(log, LAMBDA s : s \in {"train", "predict", "trend", "accuracy"})

Position(log, s) == CHOOSE k \in 1..Len(log) : log[k] = s

(* The order of the statements of a batch cycle, with `first` and `second`  *)
(* the order of the last two: the training call, one prediction per item,   *)
(* the trend update and the accuracy append, in this order and each once;   *)
(* then `first`, then `second`, each once; no item is classified before the *)
(* training call of its batch has returned, and the returned predictions    *)
(* are those of the model that call trained.                                *)
CycleOrder(i, first, second) ==
  /\ \E n \in 1..(MaxBatch + 1) :
       /\ IsPrefix(Core(steps[i]), ExpectedSteps(n))
       /\ Occurrences(steps[i], "trend") = 1 => n = Len(pred_log[i])
  /\ Occurrences(steps[i], first) <= 1
  /\ Occurrences(steps[i], second) <= 1
  /\ Occurrences(steps[i], first) = 1 =>
       /\ Occurrences(steps[i], "accuracy") = 1
       /\ Position(steps[i], "accuracy") < Position(steps[i], first)
  /\ Occurrences(steps[i], second) = 1 =>
       /\ Occurrences(steps[i], first) = 1
       /\ Position(steps[i], first) < Position(steps[i], second)
  /\ Len(train_log[i]) = emitted[i] + (IF stage[i] \in {"idle", "train"} THEN 0 ELSE 1)
  /\ Len(acc_list[i]) =
       emitted[i] + (IF Occurrences(steps[i], "accuracy") = 1 /\ stage[i] # "idle"
                     THEN 1 ELSE 0)
  /\ (stage[i] = "idle" /\ ret[i].tag = "output") =>
       /\ Core(steps[i]) = ExpectedSteps(Len(ret[i].output))
       /\ Occurrences(steps[i], first) = 1
       /\ Occurrences(steps[i], second) = 1
       /\ update[i] /\ labels[i] = <<>> /\ texts[i] = <<>>
       /\ \A k \in 1..Len(ret[i].output) :
            /\ ret[i].output[k][2] = pred_log[i][k].label
            /\ pred_log[i][k].sp = cos_sim_pos(wv_model[i], ret[i].output[k][3])
            /\ pred_log[i][k].sn = cos_sim_neg(wv_model[i], ret[i].output[k][3])

(* C15 as stated: a batch cycle runs strictly in this order, each once: the *)
(* training call, one prediction per item, the trend update, the accuracy   *)
(* append, the clearing of the buffers and then the setting of the update   *)
(* flag.                                                                    *)
C15_ClearThenFlag == \A i \in Instances : CycleOrder(i, "clear", "flag")

(* C15: a batch cycle runs strictly in this order, each once: the training  *)
(* call, one prediction per item, the trend update, the accuracy append,    *)
(* the setting of the update flag and then the clearing of the buffers; no  *)
(* item is classified before the training call of its batch has returned.   *)
C15_CycleOrder == \A i \in Instances : CycleOrder(i, "flag", "clear")

C15_Witness ==
  /\ stage[1] = "idle" /\ ret[1].tag = "output"
  /\ emitted[1] = 2 /\ Len(train_log[1]) = 2
  /\ Len(ret[1].output) = 2
  /\ steps[1] = <<"train", "predict", "predict", "trend", "accuracy", "output",
                  "flag", "clear">>

(* C16: with batch_size >= 1, after N calls of process_data the label       *)
(* buffer and the text buffer have the same length, N mod batch_size; both  *)
(* are empty right after every call that returns records.                   *)
C16_BuffersInStep ==
  \A i \in Instances :
    /\ batch_size[i] >= 1 =>
         /\ Len(labels[i]) = Len(texts[i])
         /\ Len(labels[i]) = calls[i] % batch_size[i]
    /\ ret[i].tag = "output" => labels[i] = <<>> /\ texts[i] = <<>>

C16_Witness ==
  /\ batch_size[1] = 2 /\ calls[1] = 3
  /\ Len(labels[1]) = 1 /\ Len(texts[1]) = 1
  /\ emitted[1] = 1 /\ ret[1] = BATCHING

RECURSIVE ItemsClassified(_)
ItemsClassified(log) ==
  IF log = <<>> THEN 0 ELSE log[Len(log)].n + ItemsClassified(SubSeq(log, 1, Len(log) - 1))

Ones(i) == Cardinality({ k \in 1..Len(ret[i].output) : ret[i].output[k][2] = 1 })
Zeros(i) == Cardinality({ k \in 1..Len(ret[i].output) : ret[i].output[k][2] = 0 })

(* C18: in every state reached through process_data alone, with            *)
(* batch_size >= 1, pos_count + neg_count is the number of items classified *)
(* so far, batch_size times the number of completed batches, and acc_list   *)
(* has one entry per completed batch; every predicted label is 0 or 1 and   *)
(* raises exactly one of the two counters by one.                           *)
C18_CountersAddUp ==
  [][\A i \in Instances :
       /\ batch_size[i] >= 1 =>
            /\ Total(i)' = ItemsClassified(train_log[i])'
            /\ Total(i)' = batch_size[i] * emitted'[i]
            /\ Len(acc_list'[i]) = emitted'[i]
       /\ (Called(i) /\ ret'[i].tag = "output") =>
            /\ \A k \in 1..Len(ret'[i].output) : ret'[i].output[k][2] \in {0, 1}
            /\ pos_count'[i] = pos_count[i] + Ones(i)'
            /\ neg_count'[i] = neg_count[i] + Zeros(i)'
            /\ Ones(i)' + Zeros(i)' = Len(ret'[i].output)]_vars

C18_Witness ==
  /\ batch_size[1] = 1 /\ emitted[1] = 3
  /\ pos_count[1] = 2 /\ neg_count[1] = 1
  /\ Len(acc_list[1]) = 3

FoundAt(model, tokens) == { k \in 1..Len(tokens) : tokens[k] \in DOMAIN model.wv }

RECURSIVE SumAt(_, _, _)
SumAt(K, model, tokens) ==
  IF K = {} THEN 0
  ELSE LET k == CHOOSE x \in K : TRUE
       IN  model.wv[tokens[k]] + SumAt(K \ {k}, model, tokens)

(* C17: the embedder returns the arithmetic mean of the vectors of the      *)
(* tokens found in the vocabulary, each occurrence counted; a token not in  *)
(* the vocabulary is skipped without a fault; when no token is found, the   *)
(* empty sequence included, the result is the zero vector.                  *)
C17_MeanOfKnownTokens ==
  embed.called =>
    LET K == FoundAt(embed.model, embed.tokens)
    IN  /\ embed.result[2] > 0
        /\ K = {} => embed.result[1] = 0
        /\ K # {} => embed.result[1] * Cardinality(K)
                       = embed.result[2] * SumAt(K, embed.model, embed.tokens)
        /\ \A i \in Instances : err[i] = "none"

C17_Witness ==
  /\ embed.called
  /\ Cardinality(FoundAt(embed.model, embed.tokens)) = 2
  /\ Len(embed.tokens) = 3
  /\ embed.tokens[1] = embed.tokens[3]
  /\ embed.tokens[2] \notin DOMAIN embed.model.wv
  /\ embed.result = <<4, 2>>

FaultFrame(i) ==
  (stage[i] = "train" /\ stage'[i] = "idle") =>
    /\ err'[i] # "none"
    /\ TrendOf(i)' = TrendOf(i)
    /\ update'[i] = update[i]
    /\ acc_list'[i] = acc_list[i]

(* C19 as stated: when the training call raises, the fault leaves the call  *)
(* with the counters, the coefficients, the update flag and the accuracy    *)
(* history unchanged, and no later call hands the items of the failed batch *)
(* to a training call again: over all training calls made, no ingested item *)
(* is trained on twice.                                                     *)
C19_NoRetryAfterFault ==
  [][\A i \in Instances :
       /\ FaultFrame(i)
       /\ ItemsClassified(train_log[i])' <= calls'[i]]_vars

============================================================================
